---------------------------- MODULE Spec2Model ----------------------------
(***************************************************************************)
(* A model of src/index.js: the embedded-metadata store (parse, serialize, *)
(* fingerprint), the per-file run coordinator (runOnFileName) and the      *)
(* process runner (runOnFileNameInner with its checkpoints).               *)
(*                                                                         *)
(* src/index.js holds two near-identical copies of the program: lines      *)
(* 1-245 (copy 1) and lines 246-483 (copy 2).  They differ only in the end *)
(* of runOnFileNameInner; the variable "copy" says which one runs.         *)
(*                                                                         *)
(* Text is modelled character by character: a JavaScript string is a       *)
(* sequence of one-character strings, and indices are 0-based as in the    *)
(* source.                                                                 *)
(***************************************************************************)
EXTENDS Integers, Sequences, FiniteSets, TLC

(***************************************************************************)
(* Strings                                                                 *)
(***************************************************************************)

\* let prefix = "\n/** @autorun-";
prefix == <<"\n", "/", "*", "*", " ", "@", "a", "u", "t", "o", "r", "u", "n", "-">>

\* let suffix = " */\n";
suffix == <<" ", "*", "/", "\n">>

\* The key names the runner uses: "output", "lastRunHash", "stop".
KeyOutput == <<"o", "u", "t", "p", "u", "t">>

KeyLastRunHash == <<"l", "a", "s", "t", "R", "u", "n", "H", "a", "s", "h">>

KeyStop == <<"s", "t", "o", "p">>

MinOf(S) == CHOOSE i \in S : \A j \in S : i <= j

\* String.prototype.indexOf(pat, from), 0-based, -1 when there is no match.
IndexOf(s, pat, from) ==
    LET cands == {i \in from..(Len(s) - Len(pat)) :
                     /\ s[i + 1] = pat[1]
                     /\ SubSeq(s, i + 1, i + Len(pat)) = pat}
    IN  IF cands = {} THEN -1 ELSE MinOf(cands)

\* String.prototype.slice(a, b) for 0 <= a: the characters a .. b-1, the
\* empty string when b <= a (the parser can ask for slice(e + 1, e)).
Slice(s, a, b) ==
    LET hi == IF b > Len(s) THEN Len(s) ELSE b
    IN  IF hi <= a THEN <<>> ELSE SubSeq(s, a + 1, hi)

\* String.prototype.slice(a): from a to the end.
SliceFrom(s, a) == Slice(s, a, Len(s))

(***************************************************************************)
(* A value lookup (the object getCommentValueLookup returns) is a record   *)
(*   vals   : the object's own string keys in insertion order, a sequence  *)
(*            of <<key, value>> pairs with pairwise distinct keys;         *)
(*   ranges : the array stored under ValueRangesSymbol;                    *)
(*   orig   : the string stored under OriginalContentsSymbol.              *)
(* Keys that look like array indices ("0", "17"), which JavaScript         *)
(* enumerates first, are outside the model's key alphabet.                 *)
(***************************************************************************)

\* key in valueLookup
HasKey(vals, key) == \E i \in 1..Len(vals) : vals[i][1] = key

\* valueLookup[key], for a key that is present
GetKey(vals, key) == vals[CHOOSE i \in 1..Len(vals) : vals[i][1] = key][2]

\* valueLookup[key] = value: an existing key keeps its place, a new key is
\* added last.
SetKey(vals, key, value) ==
    IF HasKey(vals, key)
    THEN [i \in 1..Len(vals) |->
             IF vals[i][1] = key THEN <<key, value>> ELSE vals[i]]
    ELSE Append(vals, <<key, value>>)

\* delete valueLookup[key]
DeleteKey(vals, key) == SelectSeq(vals, LAMBDA p : p[1] # key)

RECURSIVE ParseFrom(_, _, _, _)
\* The while(true) loop of getCommentValueLookup, from position index.
ParseFrom(contents, index0, vals, ranges) ==
    LET index == IndexOf(contents, prefix, index0)
    IN  IF index < 0 THEN [vals |-> vals, ranges |-> ranges, orig |-> contents]
        ELSE
        LET endIndex == IndexOf(contents, suffix, index)
        IN  IF endIndex < 0
            THEN [vals |-> vals, ranges |-> ranges, orig |-> contents]
            ELSE
            LET keyEnd == IndexOf(contents, <<" ">>, index + Len(prefix))
                key    == Slice(contents, index + Len(prefix), keyEnd)
                value  == Slice(contents, keyEnd + 1, endIndex)
                range  == [key |-> key, value |-> value, start |-> index,
                           end |-> endIndex + Len(suffix)]
            IN  ParseFrom(contents, endIndex + Len(suffix),
                          SetKey(vals, key, value), Append(ranges, range))

getCommentValueLookup(contents) == ParseFrom(contents, 0, <<>>, <<>>)

\* The positions of value (1-based) that hold the "/" of a "*/".
ClosePositions(value) ==
    {j \in 2..Len(value) : value[j] = "/" /\ value[j - 1] = "*"}

\* value.replace(/\*\//g, "*\\/"): every "*/" becomes "*\/".  Two matches
\* cannot overlap, so each "/" that follows a "*" gets a backslash before
\* it: character j moves to position j + (the matches up to j).
ReplaceClose(value) ==
    LET hits   == ClosePositions(value)
        pos(j) == j + Cardinality({h \in hits : h <= j})
    IN  IF hits = {} THEN value
        ELSE [k \in 1..(Len(value) + Cardinality(hits)) |->
                 IF \E j \in 1..Len(value) : pos(j) = k
                 THEN value[CHOOSE j \in 1..Len(value) : pos(j) = k]
                 ELSE "\\"]

formatValue(key, value) ==
    prefix \o key \o <<" ">> \o ReplaceClose(value) \o suffix

\* The length above which a new block goes to the end of the file.
LongValue == 60

RECURSIVE RewriteRanges(_, _, _, _)
\* The first loop of getContentsFromLookup, for i down to 1 (ranges[i-1] in
\* the source): a range whose key is still present is rewritten when its
\* value differs, a range whose key is gone is cut out.
RewriteRanges(contents, ranges, vals, i) ==
    IF i = 0 THEN contents
    ELSE
    LET r == ranges[i]
        next ==
            IF HasKey(vals, r.key)
            THEN IF GetKey(vals, r.key) # r.value
                 THEN Slice(contents, 0, r.start)
                      \o formatValue(r.key, GetKey(vals, r.key))
                      \o SliceFrom(contents, r.end)
                 ELSE contents
            ELSE Slice(contents, 0, r.start) \o SliceFrom(contents, r.end)
    IN  RewriteRanges(next, ranges, vals, i - 1)

RECURSIVE AddNewKeys(_, _, _, _)
\* The second loop of getContentsFromLookup, over the keys in insertion
\* order from position i: a key no range holds goes to the end when its
\* value is long or it is "output", to the front otherwise.
AddNewKeys(contents, ranges, vals, i) ==
    IF i > Len(vals) THEN contents
    ELSE
    LET key   == vals[i][1]
        value == vals[i][2]
        found == \E j \in 1..Len(ranges) : ranges[j].key = key
        next  == IF found THEN contents
                 ELSE IF Len(value) > LongValue \/ key = KeyOutput
                      THEN contents \o formatValue(key, value)
                      ELSE formatValue(key, value) \o contents
    IN  AddNewKeys(next, ranges, vals, i + 1)

getContentsFromLookup(valueLookup) ==
    AddNewKeys(RewriteRanges(valueLookup.orig, valueLookup.ranges,
                             valueLookup.vals, Len(valueLookup.ranges)),
               valueLookup.ranges, valueLookup.vals, 1)

\* The text getHash digests: the contents with every key deleted from the
\* lookup, so that every range is cut out.
StrippedContents(contents) ==
    getContentsFromLookup([getCommentValueLookup(contents) EXCEPT !.vals = <<>>])


(***************************************************************************)
(* The digest.  sha512(...).hex() is modelled as an injective map into     *)
(* 128 characters none of which the metadata grammar reads: each character *)
(* of the text is kept, except that the grammar's own characters are       *)
(* renamed, and the result is filled up to the digest's length.  The texts *)
(* of the model use none of the letters Q, T, U, V, W, X, Y, Z.            *)
(***************************************************************************)

DigestLength == 128

DigestChar(ch) ==
    CASE ch = "\n" -> "Z"
      [] ch = "/"  -> "Y"
      [] ch = "*"  -> "X"
      [] ch = " "  -> "W"
      [] ch = "@"  -> "V"
      [] ch = "-"  -> "U"
      [] ch = "\\" -> "T"
      [] OTHER     -> ch

sha512hex(text) ==
    LET body == [i \in 1..Len(text) |-> DigestChar(text[i])]
    IN  IF Len(body) < DigestLength
        THEN body \o [i \in 1..(DigestLength - Len(body)) |-> "Q"]
        ELSE body

\* getHash of runOnFileNameInner
getHash(contents) == sha512hex(StrippedContents(contents))

(***************************************************************************)
(* Bounds of the model                                                     *)
(***************************************************************************)

\* data events one child process emits
MaxChunks == 1

\* edits the user makes to the watched files
MaxEdits == 1

\* closures of runOnFileNameInner in use for one file name: the calls in
\* flight and the calls that returned and left their writeLoop behind
MaxClosures == 3
Closures == 1..MaxClosures

\* calls that returned while a checkpoint of their writeLoop was reading or
\* writing, and whose checkpoint is still at it while another call for the
\* same name is in flight
MaxOverlap == 0

\* change events that arrive with no write behind them (a touch, a chmod)
MaxTouches == 5

(***************************************************************************)
(* The watched directory                                                   *)
(***************************************************************************)

Files == {"a.js", "b.js"}

\* What readFile gives for a name that cannot be read.
NoFile == <<"ENOENT">>

Block(key, value) == prefix \o key \o <<" ">> \o value \o suffix

\* A stop request as the user writes it, with no value.
StopBlock == prefix \o KeyStop \o suffix

\* What one data event of the child's stdout carries.
Chunks == {<<"h", "i", "\n">>}

ExitTrailer(code) ==
    <<"\n", "E", "x", "i", "t", " ", "c", "o", "d", "e", " ", "n", "o", "n",
      "-", "0", ",", " ", "w", "a", "s", " ">> \o code \o <<"\n">>

ErrorTrailer ==
    <<"\n", "E", "n", "d", "i", "n", "g", " ", "w", "i", "t", "h", " ", "e",
      "r", "r", "o", "r", " ", "E", "r", "r", "o", "r", ":", " ", "s", "p",
      "a", "w", "n", "\n">>

Body == <<"x">>

\* The file a completed run of Body leaves behind.
RanContents ==
    Body \o Block(KeyOutput, <<"\n", "h", "i", "\n">>)
         \o Block(KeyLastRunHash, sha512hex(Body))

\* The contents a file can have when the watcher starts: a script never
\* run, one run and unchanged since, one with an opening marker that is
\* never closed, and one with a stop request left in it.  The user's edits
\* give the others: a script changed since its run, a name that cannot be
\* read.
InitialContents ==
    { Body,
      RanContents,
      Body \o prefix \o <<"k">>,
      Body \o StopBlock }


(***************************************************************************)
(* State                                                                   *)
(***************************************************************************)

VARIABLES
    copy,                 \* 1: the program of lines 1-245, 2: of lines 246-483
    disk,                 \* the contents of each file of the directory, or NoFile
    events,               \* the names with a change event fs.watch has yet to
                          \* deliver (the events of one name waiting together
                          \* are coalesced into one)
    edits,                \* edits the user has made so far
    filesPending,         \* the keys of the object filesPending
    filesPendingTrigger,  \* the keys of the object filesPendingTrigger
    attempts,             \* per name, the calls of runOnFileNameInner whose
                          \* closure is still in use
    touches,              \* events the user has caused without a write
    swallowed,            \* per name, the touch events that called
                          \* runOnFileName while a call of runOnFileNameInner
                          \* for it was in flight, since that call began
                          \* (history)
    lastStep              \* what the last step did (history)

vars == <<copy, disk, events, edits, touches, filesPending,
          filesPendingTrigger, attempts, swallowed, lastStep>>

EmptyLookup == [vals |-> <<>>, ranges |-> <<>>, orig |-> <<>>]

\* One call of writeContents: awaiting its readFile ("read"), awaiting its
\* writeFile ("write") with the text being written and shouldKill.
\* afterStop (history): its read came after a checkpoint of the same run
\* had seen a stop key.  seen (history): what its readFile gave, NoFile when
\* it failed.
NoCheckpoint == [pc |-> "off", kill |-> FALSE, data |-> <<>>, afterStop |-> FALSE,
                 seen |-> <<>>]

\* The child process: alive until its exit event, open until its stdout
\* ends, err when the spawn failed and the error event is yet to come.
NoChild == [alive |-> FALSE, open |-> FALSE, killed |-> FALSE, err |-> FALSE,
            n |-> 0]

(***************************************************************************)
(* The closure of one call of runOnFileNameInner.                          *)
(*   pc: "read" (line 135), "stat" (136), "promise" (232), "final" (236),  *)
(*       "ret" (returned or thrown);                                       *)
(*   contents, outputValues, hash, output, done: the variables of the same *)
(*       names;                                                            *)
(*   child: proc;  loop: writeLoop, with pc "timer" while it sleeps and    *)
(*       "dead" once writeContents threw inside it;  final: the call of    *)
(*       writeContents of line 236;                                        *)
(*   stopSeen, before (history): a checkpoint has seen a stop key; the     *)
(*       values the file held when the run began;                          *)
(*   scan (history): the call was made by the startup scan, not by the     *)
(*       callback of fs.watch or the finally block.                        *)
(***************************************************************************)
NewClosure ==
    [pc |-> "read", contents |-> <<>>, outputValues |-> EmptyLookup,
     hash |-> <<>>, output |-> <<>>, done |-> FALSE, child |-> NoChild,
     loop |-> NoCheckpoint, final |-> NoCheckpoint,
     stopSeen |-> FALSE, before |-> <<>>, scan |-> FALSE]

Quiet == [kind |-> "other", f |-> "", k |-> 0, requested |-> FALSE,
          started |-> 0, how |-> "-",
          c |-> NewClosure]

\* A closure that acts no more: the call has returned and its writeLoop has
\* ended, or sleeps with done set and will end when its timer fires.
Garbage(c) ==
    /\ c.pc = "ret"
    /\ \/ c.loop.pc \in {"off", "dead"}
       \/ c.loop.pc = "timer" /\ c.done

Collect(att) == SelectSeq(att, LAMBDA c : ~Garbage(c))

\* A call that has returned, with a checkpoint of its writeLoop under way.
Zombie(c) == c.pc = "ret" /\ c.loop.pc \in {"read", "write"}

\* The calls of runOnFileNameInner for f that have not returned.
InFlight(f) == Cardinality({i \in 1..Len(attempts[f]) : attempts[f][i].pc # "ret"})

(***************************************************************************)
(* RunCoordinator: runOnFileName.  The coordinator's state is threaded     *)
(* through a record, because the finally block calls runOnFileName again.  *)
(***************************************************************************)

CoordState(att) ==
    [pending |-> filesPending, trigger |-> filesPendingTrigger, att |-> att,
     started |-> 0]

\* Mutation: the test of line 109 never finds the name.
IsPendingNever(S, f) == FALSE

\* fileName in filesPending
IsPending(S, f) == f \in S.pending

\* runOnFileName up to its await: debounce, or mark the name and call
\* runOnFileNameInner, which runs up to its readFile.
runOnFileName(S, f) ==
    IF IsPending(S, f)
    THEN [S EXCEPT !.trigger = @ \cup {f}]
    ELSE [S EXCEPT !.pending = @ \cup {f},
                   !.att[f] = Append(@, NewClosure),
                   !.started = @ + 1]

\* Mutation: line 122 is missing, the flag is left set.
RetriggerKeepsFlag(S, f) ==
    IF f \in S.trigger THEN runOnFileName(S, f) ELSE S

\* if(filesPendingTrigger[fileName]) { delete ...; runOnFileName(fileName); }
Retrigger(S, f) ==
    IF f \in S.trigger
    THEN runOnFileName([S EXCEPT !.trigger = @ \ {f}], f)
    ELSE S

\* Mutation: the name is deleted from filesPending after the re-trigger
\* instead of before it.
finallyBlockLate(S, f) == [Retrigger(S, f) EXCEPT !.pending = @ \ {f}]

\* The finally block of runOnFileName.
finallyBlock(S, f) == Retrigger([S EXCEPT !.pending = @ \ {f}], f)

Install(S, step) ==
    /\ filesPending' = S.pending
    /\ filesPendingTrigger' = S.trigger
    /\ attempts' = [g \in Files |-> Collect(S.att[g])]
    /\ \A g \in Files :
          /\ Len(attempts'[g]) <= MaxClosures
          /\ \/ \A i \in DOMAIN attempts'[g] : attempts'[g][i].pc = "ret"
             \/ Cardinality({i \in DOMAIN attempts'[g] :
                                Zombie(attempts'[g][i])}) <= MaxOverlap
    /\ lastStep' = step

\* Closure i of f becomes c and goes on.
Continue(f, i, c) ==
    /\ Install(CoordState([attempts EXCEPT ![f][i] = c]), Quiet)
    /\ UNCHANGED swallowed

\* The same at the completion of a writeFile, which lastStep keeps: how is
\* "cancel" for a checkpoint that saw a stop key, "record" for the others.
Wrote(f, i, c, how) ==
    /\ Install(CoordState([attempts EXCEPT ![f][i] = c]),
               [Quiet EXCEPT !.kind = "write", !.f = f, !.how = how, !.c = c])
    /\ UNCHANGED swallowed

\* Closure i of f ends as c (returned, or thrown into the catch of line
\* 117); the finally block runs.
Finish(f, i, c, how) ==
    LET ended == [c EXCEPT !.pc = "ret", !.child = NoChild,
                           !.final = NoCheckpoint, !.contents = <<>>]
        S == finallyBlock(CoordState([attempts EXCEPT ![f][i] = ended]), f)
    IN  /\ Install(S, [kind |-> "finish", f |-> f, k |-> swallowed[f],
                       requested |-> f \in filesPendingTrigger,
                       started |-> S.started, how |-> how, c |-> c])
        /\ swallowed' = [swallowed EXCEPT ![f] = 0]

\* A write of the runner or an edit of the user makes fs.watch report f.
Notify(f) == events' = events \cup {f}

\* fs.watch(scriptFolder, (change, fileName) => runOnFileName(fileName))
WatchEvent(f) ==
    /\ f \in events
    /\ events' = events \ {f}
    /\ LET S == runOnFileName(CoordState(attempts), f)
       IN  Install(S, [kind |-> "trigger", f |-> f, k |-> swallowed[f],
                       requested |-> f \in filesPendingTrigger,
                       started |-> S.started, how |-> "-", c |-> NewClosure])
    /\ UNCHANGED <<copy, disk, edits, touches, swallowed>>

\* The same callback for an event with no write behind it; the history
\* counts the call when a call of runOnFileNameInner for f is in flight.
TouchEvent(f) ==
    /\ touches < MaxTouches
    /\ touches' = touches + 1
    /\ swallowed' = [swallowed EXCEPT ![f] = IF InFlight(f) > 0 THEN @ + 1 ELSE 0]
    /\ LET S == runOnFileName(CoordState(attempts), f)
       IN  Install(S, [kind |-> "trigger", f |-> f, k |-> swallowed[f],
                       requested |-> f \in filesPendingTrigger,
                       started |-> S.started, how |-> "-", c |-> NewClosure])
    /\ UNCHANGED <<copy, disk, events, edits>>


(***************************************************************************)
(* ProcessRunner: runOnFileNameInner                                       *)
(***************************************************************************)

\* line 135: readFile completes; a failure returns from the call.
ReadDone(f, i) ==
    LET c == attempts[f][i]
    IN  /\ i \in DOMAIN attempts[f]
        /\ c.pc = "read"
        /\ IF disk[f] = NoFile
           THEN Finish(f, i, c, "readfail")
           ELSE Continue(f, i, [c EXCEPT !.pc = "stat", !.contents = disk[f]])
        /\ UNCHANGED <<copy, disk, events, edits, touches>>

\* Mutation: the gate of line 159 never finds the hashes equal.
SameHashNever(outputValues, hash) == FALSE

\* outputValues.lastRunHash === hash
SameHash(outputValues, hash) ==
    /\ HasKey(outputValues.vals, KeyLastRunHash)
    /\ GetKey(outputValues.vals, KeyLastRunHash) = hash

\* A call of writeContents that found done false and awaits its readFile.
StartCheckpoint == [NoCheckpoint EXCEPT !.pc = "read"]

\* Lines 163-230: fork, attach the handlers, start writeLoop, which calls
\* writeContents at once.  err: the spawn fails.
Fork(c, outputValues, hash, err) ==
    [c EXCEPT !.pc = "promise",
              !.outputValues = outputValues,
              !.hash = hash,
              !.output = <<"\n">>,
              !.done = FALSE,
              !.child = [alive |-> ~err, open |-> ~err, killed |-> FALSE,
                         err |-> err, n |-> 0],
              !.loop = StartCheckpoint,
              !.before = outputValues.vals]

\* lines 136-232: stat completes; the gate, and the start of the run.
StatDone(f, i) ==
    LET c  == attempts[f][i]
        ov == getCommentValueLookup(c.contents)
        h  == getHash(c.contents)
    IN  /\ i \in DOMAIN attempts[f]
        /\ c.pc = "stat"
        /\ IF disk[f] = NoFile
           THEN Finish(f, i, c, "readfail")
           ELSE IF SameHash(ov, h)
                THEN Finish(f, i, [c EXCEPT !.outputValues = ov, !.hash = h],
                            "skip")
                ELSE \E err \in BOOLEAN : Continue(f, i, Fork(c, ov, h, err))
        /\ UNCHANGED <<copy, disk, events, edits, touches>>

\* What follows "await promise": lines 234-238 in copy 1, where the final
\* writeContents is called and awaited before done is set; lines 472-476
\* in copy 2, where done is set first, so that writeContents returns at
\* once.
AfterPromise(c) ==
    IF c.done THEN [c EXCEPT !.pc = "ret"]
    ELSE IF copy = 1
         THEN [c EXCEPT !.pc = "final", !.final = StartCheckpoint]
         ELSE [c EXCEPT !.done = TRUE, !.pc = "ret"]

\* onDone() / resolve(): the first call resumes runOnFileNameInner.
Resolve(f, i, c) ==
    IF c.pc = "promise"
    THEN IF AfterPromise(c).pc = "ret"
         THEN Finish(f, i, AfterPromise(c),
                     IF c.done THEN "cancelled" ELSE "done")
         ELSE Continue(f, i, AfterPromise(c))
    ELSE Continue(f, i, c)

\* proc.stdout.on("data")
ChildData(f, i, chunk) ==
    LET c == attempts[f][i]
    IN  /\ i \in DOMAIN attempts[f]
        /\ c.pc \in {"promise", "final"}
        /\ c.child.open
        /\ c.child.n < MaxChunks
        /\ Continue(f, i, [c EXCEPT !.output = @ \o chunk, !.child.n = @ + 1])
        /\ UNCHANGED <<copy, disk, events, edits, touches>>

\* proc.stdout.on("end"): resolves the promise in copy 1 (line 181); copy 2
\* has no handler for it.
ChildStdoutEnd(f, i) ==
    LET c  == attempts[f][i]
        c1 == [c EXCEPT !.child.open = FALSE]
    IN  /\ i \in DOMAIN attempts[f]
        /\ c.pc \in {"promise", "final"}
        /\ c.child.open
        /\ IF copy = 1 THEN Resolve(f, i, c1) ELSE Continue(f, i, c1)
        /\ UNCHANGED <<copy, disk, events, edits, touches>>

\* The exit codes of a child that was not killed; a killed one gives null.
ExitCodes == {<<"0">>, <<"1">>}

\* proc.on("exit"): appends the trailer for a code other than 0 (lines
\* 176-180); in copy 2 it also resolves the promise (line 462).
ChildExit(f, i, code) ==
    LET c  == attempts[f][i]
        c1 == [c EXCEPT !.child.alive = FALSE,
                        !.output = IF code = <<"0">> THEN @
                                   ELSE @ \o ExitTrailer(code)]
    IN  /\ i \in DOMAIN attempts[f]
        /\ c.pc \in {"promise", "final"}
        /\ c.child.alive
        /\ c.child.killed <=> code = <<"n", "u", "l", "l">>
        /\ IF copy = 2 THEN Resolve(f, i, c1) ELSE Continue(f, i, c1)
        /\ UNCHANGED <<copy, disk, events, edits, touches>>

\* proc.on("error"): the spawn failed (lines 172-175).
ChildError(f, i) ==
    LET c  == attempts[f][i]
        c1 == [c EXCEPT !.child.err = FALSE, !.output = @ \o ErrorTrailer]
    IN  /\ i \in DOMAIN attempts[f]
        /\ c.pc \in {"promise", "final"}
        /\ c.child.err
        /\ Resolve(f, i, c1)
        /\ UNCHANGED <<copy, disk, events, edits, touches>>

(***************************************************************************)
(* Checkpoints: writeContents                                              *)
(***************************************************************************)

\* "stop" in testCurOutputValues
ShouldKill(testCur) == HasKey(testCur.vals, KeyStop)

\* The values a checkpoint that saw no stop key records (lines 205-206).
Recorded(c) ==
    [c.outputValues EXCEPT
        !.vals = SetKey(SetKey(@, KeyOutput, c.output), KeyLastRunHash, c.hash)]

\* Mutation: a checkpoint that saw no stop key sets output and lastRunHash
\* in the lookup of what it has just read, and serialises that.
CheckpointBodyFromRead(c, read) ==
    LET testCur == IF read = NoFile THEN EmptyLookup
                   ELSE getCommentValueLookup(read)
        kill    == ShouldKill(testCur)
        chosen  == IF kill THEN testCur
                   ELSE [testCur EXCEPT
                            !.vals = SetKey(SetKey(@, KeyOutput, c.output),
                                            KeyLastRunHash, c.hash)]
        ov      == [chosen EXCEPT !.vals = DeleteKey(@, KeyStop)]
        data    == getContentsFromLookup(ov)
    IN  [ov |-> ov, kill |-> kill, data |-> data, threw |-> FALSE,
         seen |-> read]

\* writeContents from the completion of its readFile (read: what it gave,
\* NoFile when it failed) to its call of writeFilePromise: the values it
\* leaves in outputValues, shouldKill, whether the fingerprint check
\* throws, and the text it writes.
CheckpointBody(c, read) ==
    LET testCur == IF read = NoFile THEN EmptyLookup
                   ELSE getCommentValueLookup(read)
        kill    == ShouldKill(testCur)
        chosen  == IF kill THEN testCur ELSE Recorded(c)
        ov      == [chosen EXCEPT !.vals = DeleteKey(@, KeyStop)]
        data    == getContentsFromLookup(ov)
    IN  [ov |-> ov, kill |-> kill, data |-> data,
         threw |-> ~kill /\ c.hash # getHash(data),
         seen |-> read]

\* The closure after the synchronous part of a checkpoint: proc.kill and
\* the assignment to outputValues.
Checked(c, r) ==
    [c EXCEPT !.outputValues = r.ov,
              !.child.killed = @ \/ (r.kill /\ c.child.alive),
              !.stopSeen = @ \/ r.kill]

Writing(c, r) ==
    [pc |-> "write", kill |-> r.kill, data |-> r.data, afterStop |-> c.stopSeen,
     seen |-> r.seen]

\* A checkpoint of writeLoop reads the file.  When writeContents throws,
\* the promise of writeLoop, which nothing awaits, is rejected and the loop
\* is over.
LoopReadDone(f, i) ==
    LET c == attempts[f][i]
        r == CheckpointBody(c, disk[f])
    IN  /\ i \in DOMAIN attempts[f]
        /\ c.loop.pc = "read"
        /\ Continue(f, i,
             [Checked(c, r) EXCEPT
                 !.loop = IF r.threw THEN [NoCheckpoint EXCEPT !.pc = "dead"]
                          ELSE Writing(c, r)])
        /\ UNCHANGED <<copy, disk, events, edits, touches>>

\* The writeFile of a checkpoint of writeLoop completes (lines 218-222),
\* and the loop sleeps (line 228).
LoopWriteDone(f, i) ==
    LET c == attempts[f][i]
    IN  /\ i \in DOMAIN attempts[f]
        /\ c.loop.pc = "write"
        /\ disk' = [disk EXCEPT ![f] = c.loop.data]
        /\ Notify(f)
        /\ Wrote(f, i, [c EXCEPT !.done = @ \/ c.loop.kill,
                                 !.loop = [NoCheckpoint EXCEPT !.pc = "timer"]],
                 IF c.loop.kill THEN "cancel" ELSE "record")
        /\ UNCHANGED <<copy, edits, touches>>

\* The timer of line 228 fires: while(!done) writeContents().
LoopTimer(f, i) ==
    LET c == attempts[f][i]
    IN  /\ i \in DOMAIN attempts[f]
        /\ c.loop.pc = "timer"
        /\ Continue(f, i, [c EXCEPT !.loop = IF c.done THEN NoCheckpoint
                                             ELSE StartCheckpoint])
        /\ UNCHANGED <<copy, disk, events, edits, touches>>

\* The final checkpoint (line 236, copy 1) reads the file.  When it throws,
\* runOnFileNameInner throws into the catch of line 117, done still false.
FinalReadDone(f, i) ==
    LET c == attempts[f][i]
        r == CheckpointBody(c, disk[f])
    IN  /\ i \in DOMAIN attempts[f]
        /\ c.pc = "final"
        /\ c.final.pc = "read"
        /\ IF r.threw
           THEN Finish(f, i, Checked(c, r), "threw")
           ELSE Continue(f, i, [Checked(c, r) EXCEPT !.final = Writing(c, r)])
        /\ UNCHANGED <<copy, disk, events, edits, touches>>

\* The writeFile of the final checkpoint completes; line 237 sets done and
\* the call returns.
FinalWriteDone(f, i) ==
    LET c == attempts[f][i]
    IN  /\ i \in DOMAIN attempts[f]
        /\ c.pc = "final"
        /\ c.final.pc = "write"
        /\ disk' = [disk EXCEPT ![f] = c.final.data]
        /\ Notify(f)
        /\ Finish(f, i, [c EXCEPT !.done = TRUE],
                  IF c.final.kill THEN "cancelled" ELSE "done")
        /\ UNCHANGED <<copy, edits, touches>>

(***************************************************************************)
(* The user, who may edit the watched files at any time                    *)
(***************************************************************************)

UserEdit(f, text) ==
    /\ edits < MaxEdits
    /\ edits' = edits + 1
    /\ disk' = [disk EXCEPT ![f] = text]
    /\ Notify(f)
    /\ lastStep' = Quiet
    /\ UNCHANGED <<copy, touches, filesPending, filesPendingTrigger, attempts,
                   swallowed>>

\* The user asks for the run to stop: a stop block at the end of the file.
UserAddStop(f) ==
    /\ disk[f] # NoFile
    /\ ~HasKey(getCommentValueLookup(disk[f]).vals, KeyStop)
    /\ UserEdit(f, disk[f] \o StopBlock)

\* The same request written on a line before the script instead of after
\* it.
UserInsertStop(f) ==
    /\ disk[f] # NoFile
    /\ ~HasKey(getCommentValueLookup(disk[f]).vals, KeyStop)
    /\ UserEdit(f, StopBlock \o disk[f])

\* The user changes the script.
UserEditBody(f) ==
    /\ disk[f] # NoFile
    /\ UserEdit(f, <<"z">> \o disk[f])

\* The user deletes the file.
UserDelete(f) ==
    /\ disk[f] # NoFile
    /\ UserEdit(f, NoFile)

(***************************************************************************)
(* The system                                                              *)
(***************************************************************************)

\* The state after the top level of the program has run: fs.watch is
\* registered and the startup scan has called runOnFileName for every
\* entry of the directory, each call now awaiting its readFile.
Started(d, entries) ==
    /\ disk = d
    /\ events = {}
    /\ edits = 0
    /\ touches = 0
    /\ filesPending = entries
    /\ filesPendingTrigger = {}
    /\ attempts = [f \in Files |->
                      IF f \in entries
                      THEN <<[NewClosure EXCEPT !.scan = TRUE]>>
                      ELSE <<>>]
    /\ swallowed = [f \in Files |-> 0]
    /\ lastStep = Quiet

\* A directory that holds the one script a.js.
Init ==
    /\ copy \in {1, 2}
    /\ \E text \in InitialContents :
           Started([f \in Files |-> IF f = "a.js" THEN text ELSE NoFile],
                   {"a.js"})

Next ==
    \E f \in Files :
        \/ WatchEvent(f)
        \/ UserAddStop(f)
        \/ UserInsertStop(f)
        \/ UserEditBody(f)
        \/ UserDelete(f)
        \/ \E i \in Closures :
              \/ ReadDone(f, i)
              \/ StatDone(f, i)
              \/ \E chunk \in Chunks : ChildData(f, i, chunk)
              \/ ChildStdoutEnd(f, i)
              \/ \E code \in ExitCodes \cup {<<"n", "u", "l", "l">>} :
                    ChildExit(f, i, code)
              \/ ChildError(f, i)
              \/ LoopReadDone(f, i)
              \/ LoopWriteDone(f, i)
              \/ LoopTimer(f, i)
              \/ FinalReadDone(f, i)
              \/ FinalWriteDone(f, i)

Spec == Init /\ [][Next]_vars

\* A directory of two entries, each a script whose block is up to date or
\* an entry readFile fails on (a subdirectory), where the only events are
\* those of touches: every call of runOnFileNameInner ends at its gate.
InitCoord ==
    /\ copy \in {1, 2}
    /\ \E d \in [Files -> {RanContents, NoFile}] : Started(d, Files)

NextCoord ==
    \E f \in Files :
        \/ TouchEvent(f)
        \/ \E i \in Closures :
              \/ ReadDone(f, i)
              \/ StatDone(f, i)

SpecCoord == InitCoord /\ [][NextCoord]_vars

(***************************************************************************)
(* MetadataStore on its own: getCommentValueLookup, an assignment or a     *)
(* deletion of one key, and getContentsFromLookup, applied once to the     *)
(* contents of a.js with no run in flight.                                 *)
(***************************************************************************)

\* pieces a text is put together from
MaxPieces == 3

\* Text of the script's body, and metadata blocks of the grammar: two of
\* one key with different values, one of the key "output", a stop block.
WellFormedPieces ==
    { Body,
      Block(<<"k">>, <<"1">>),
      Block(<<"k">>, <<"2">>),
      Block(KeyOutput, <<"h">>),
      StopBlock }

\* An opening marker that nothing closes.
OpenMarker == prefix \o <<"k">>

RECURSIVE Flatten(_)
Flatten(pieces) ==
    IF pieces = <<>> THEN <<>> ELSE Head(pieces) \o Flatten(Tail(pieces))

TextsOf(pieces) ==
    {Flatten(ps) : ps \in UNION {[1..n -> pieces] : n \in 0..MaxPieces}}

WellFormedTexts == TextsOf(WellFormedPieces)

StoreTexts == TextsOf(WellFormedPieces \cup {OpenMarker})

\* The keys and the values an assignment is made of.
StoreKeys == {<<"k">>, KeyOutput, KeyLastRunHash, KeyStop}

StoreValues == {<<"1">>, <<"h", "*", "/">>, sha512hex(Body)}

InitStore ==
    /\ copy \in {1, 2}
    /\ \E text \in StoreTexts :
           disk = [f \in Files |-> IF f = "a.js" THEN text ELSE NoFile]
    /\ events = {}
    /\ edits = 0
    /\ touches = 0
    /\ filesPending = {}
    /\ filesPendingTrigger = {}
    /\ attempts = [f \in Files |-> <<>>]
    /\ swallowed = [f \in Files |-> 0]
    /\ lastStep = Quiet

\* The file is rewritten with what getContentsFromLookup makes of lookup,
\* once; lastStep keeps the contents the file had and the lookup that was
\* serialized.
StoreStep(f, how, lookup) ==
    /\ disk' = [disk EXCEPT ![f] = getContentsFromLookup(lookup)]
    /\ lastStep' = [Quiet EXCEPT !.kind = "store", !.f = f, !.how = how,
                                 !.c.contents = disk[f],
                                 !.c.outputValues = lookup]
    /\ UNCHANGED <<copy, events, edits, touches, filesPending,
                   filesPendingTrigger, attempts, swallowed>>

\* getContentsFromLookup(getCommentValueLookup(contents))
StoreRewrite(f) ==
    /\ disk[f] # NoFile /\ lastStep = Quiet
    /\ StoreStep(f, "rewrite", getCommentValueLookup(disk[f]))

\* valueLookup[key] = value between the two
StoreSet(f, key, value) ==
    /\ disk[f] # NoFile /\ lastStep = Quiet
    /\ StoreStep(f, "set", [getCommentValueLookup(disk[f]) EXCEPT
                               !.vals = SetKey(@, key, value)])

\* delete valueLookup[key] between the two
StoreDelete(f, key) ==
    /\ disk[f] # NoFile /\ lastStep = Quiet
    /\ StoreStep(f, "delete", [getCommentValueLookup(disk[f]) EXCEPT
                                  !.vals = DeleteKey(@, key)])

NextStore ==
    \E f \in Files :
        \/ StoreRewrite(f)
        \/ \E key \in StoreKeys, value \in StoreValues : StoreSet(f, key, value)
        \/ \E key \in StoreKeys : StoreDelete(f, key)

SpecStore == InitStore /\ [][NextStore]_vars

(***************************************************************************)
(* Properties                                                              *)
(***************************************************************************)

\* The closures of the state: those of the calls under way and the one the
\* last step ended.
ClosuresOf(f) ==
    {attempts[f][i] : i \in DOMAIN attempts[f]}
        \cup (IF lastStep.kind = "finish" /\ lastStep.f = f
              THEN {lastStep.c} ELSE {})

\* C1: for every file name, whatever the order of the change events, the
\* startup scan and the re-triggers of finishing runs, at most one call of
\* runOnFileNameInner for that name is in flight.
C1_AtMostOneInFlight == \A f \in Files : InFlight(f) <= 1

\* A change event has called runOnFileName while a call for the name was in
\* flight, and started nothing.
C1_Witness ==
    /\ lastStep.kind = "trigger"
    /\ lastStep.started = 0
    /\ InFlight(lastStep.f) = 1

\* C2: when runOnFileName was called k >= 1 times for a name while a call
\* of runOnFileNameInner for it was in flight, the end of that call starts
\* exactly one more call, and leaves no request behind; the end of a call
\* during which runOnFileName was not called starts none.
C2_OneRunForManyTriggers ==
    lastStep.kind = "finish" =>
        IF lastStep.k >= 1
        THEN /\ lastStep.started = 1
             /\ InFlight(lastStep.f) = 1
             /\ lastStep.f \notin filesPendingTrigger
        ELSE /\ lastStep.started = 0
             /\ InFlight(lastStep.f) = 0

\* Five calls were debounced during one call of runOnFileNameInner, and its
\* end started one.
C2_Witness ==
    /\ lastStep.kind = "finish"
    /\ lastStep.k = MaxTouches
    /\ lastStep.started = 1

\* C3: filesPendingTrigger holds a name only while filesPending holds it;
\* and the end of a call that finds the name in filesPendingTrigger takes
\* it out and enters runOnFileNameInner for the name exactly once.
C3_TriggerOnlyWhilePending ==
    /\ filesPendingTrigger \subseteq filesPending
    /\ (lastStep.kind = "finish" /\ lastStep.requested) =>
          /\ lastStep.f \notin filesPendingTrigger
          /\ lastStep.f \in filesPending
          /\ lastStep.started = 1
          /\ InFlight(lastStep.f) = 1

\* A run of the child has ended with a request pending.
C3_Witness ==
    /\ lastStep.kind = "finish"
    /\ lastStep.requested
    /\ lastStep.how = "done"
    /\ lastStep.started = 1

\* The contents hold a lastRunHash equal to their own fingerprint.
UpToDate(contents) ==
    LET vals == getCommentValueLookup(contents).vals
    IN  /\ HasKey(vals, KeyLastRunHash)
        /\ GetKey(vals, KeyLastRunHash) = getHash(contents)

\* The closure has forked a child or called writeContents.
Acted(c) ==
    c.child # NoChild \/ c.loop # NoCheckpoint \/ c.final # NoCheckpoint

\* C4: a call of runOnFileNameInner that read contents whose lastRunHash
\* equals the fingerprint of those contents forks no child and starts no
\* write of the file.
C4_UnchangedSpawnsNothing ==
    \A f \in Files : \A c \in ClosuresOf(f) :
        (c.pc \notin {"read", "stat"} /\ UpToDate(c.contents)) => ~Acted(c)

\* A call has ended at the gate, on contents that were up to date.
C4_Witness ==
    /\ lastStep.kind = "finish"
    /\ lastStep.how = "skip"
    /\ UpToDate(lastStep.c.contents)
    /\ ~Acted(lastStep.c)

\* The values the metadata of f holds on disk.
OnDisk(f) == getCommentValueLookup(disk[f]).vals

\* vals holds value under key
Holds(vals, key, value) == HasKey(vals, key) /\ GetKey(vals, key) = value

\* The two lookups agree on key.
SameAt(vals1, vals2, key) ==
    /\ HasKey(vals1, key) <=> HasKey(vals2, key)
    /\ HasKey(vals1, key) => GetKey(vals1, key) = GetKey(vals2, key)

\* C5: when the child was forked and exited without being killed, no
\* checkpoint saw a stop key and the user edited nothing, then at the
\* return of runOnFileNameInner the file's output is all the output the
\* run accumulated and its lastRunHash is the run's fingerprint.
C5_FinalCheckpointFlushes ==
    LET c == lastStep.c
    IN  ( /\ lastStep.kind = "finish"
          /\ lastStep.how = "done"
          /\ ~c.stopSeen /\ ~c.child.err /\ ~c.child.killed
          /\ edits = 0 )
        => /\ Holds(OnDisk(lastStep.f), KeyOutput, c.output)
           /\ Holds(OnDisk(lastStep.f), KeyLastRunHash, c.hash)

\* The write of a checkpoint that saw a stop key has just completed, in
\* writeLoop or as the final checkpoint.
JustCancelled ==
    \/ lastStep.kind = "write" /\ lastStep.how = "cancel"
    \/ lastStep.kind = "finish" /\ lastStep.how = "cancelled"
                                /\ lastStep.c.final.pc = "write"

\* C6: when the write of a checkpoint that saw a stop key completes, the
\* child has been told to die, done is set, the file holds no stop key,
\* and its output and lastRunHash are those it held when the run began.
C6_CancelKeepsOldValues ==
    LET c == lastStep.c
    IN  JustCancelled
        => /\ c.done
           /\ c.child.alive => c.child.killed
           /\ ~HasKey(OnDisk(lastStep.f), KeyStop)
           /\ SameAt(OnDisk(lastStep.f), c.before, KeyOutput)
           /\ SameAt(OnDisk(lastStep.f), c.before, KeyLastRunHash)

\* C7: with no edit of the user, a write that a checkpoint prepared after
\* a checkpoint of the same run had seen the stop key never records the
\* run's output and fingerprint.
C7_StopWins ==
    \A f \in Files : \A i \in DOMAIN attempts[f] :
        \A w \in {attempts[f][i].loop, attempts[f][i].final} :
            (edits = 0 /\ w.pc = "write" /\ w.afterStop) => w.kill

\* C8: while the child of a run is alive and has not been told to stop,
\* the file does not hold the run's fingerprint as its lastRunHash.
C8_HashOnlyAfterCompletion ==
    \A f \in Files : \A i \in DOMAIN attempts[f] :
        LET c == attempts[f][i]
        IN  (c.pc = "promise" /\ c.child.alive /\ ~c.child.killed /\ edits = 0)
            => ~Holds(OnDisk(f), KeyLastRunHash, c.hash)

\* C9: getContentsFromLookup(getCommentValueLookup(contents)) is contents,
\* for contents made of text and well-formed blocks, keys repeated or not.
C9_RoundTripIdentical ==
    ( /\ lastStep.kind = "store"
      /\ lastStep.how = "rewrite"
      /\ lastStep.c.contents \in WellFormedTexts )
    => disk[lastStep.f] = lastStep.c.contents

\* The keys the runner assigns.
RunnerKeys == {KeyOutput, KeyLastRunHash, KeyStop}

\* C10: when the values of output, lastRunHash and stop are assigned or
\* deleted in the lookup of any contents, an opening marker that nothing
\* closes included, what is serialized has the fingerprint of those
\* contents.
C10_FingerprintStable ==
    LET old == getCommentValueLookup(lastStep.c.contents).vals
        new == lastStep.c.outputValues.vals
    IN  ( /\ lastStep.kind = "store"
          /\ \A p \in {old[j] : j \in DOMAIN old} \cup {new[j] : j \in DOMAIN new} :
                p[1] \notin RunnerKeys => SameAt(old, new, p[1]) )
        => getHash(disk[lastStep.f]) = getHash(lastStep.c.contents)

\* C11: when a value that holds the text "*/" is assigned to a key in the
\* lookup of well-formed contents, the lookup of what is serialized holds
\* that value, character for character, under the key.
C11_CloseMarkerRoundTrip ==
    LET new == lastStep.c.outputValues.vals
    IN  ( /\ lastStep.kind = "store"
          /\ lastStep.how = "set"
          /\ lastStep.c.contents \in WellFormedTexts )
        => \A j \in DOMAIN new :
              ClosePositions(new[j][2]) # {}
                  => Holds(OnDisk(lastStep.f), new[j][1], new[j][2])

\* C12: a call of runOnFileNameInner whose readFile or stat fails returns
\* without a child and without a checkpoint; and a checkpoint whose
\* readFile fails writes nothing to the file.
C12_FailedReadWritesNothing ==
    /\ (lastStep.kind = "finish" /\ lastStep.how = "readfail")
          => ~Acted(lastStep.c)
    /\ \A f \in Files : \A i \in DOMAIN attempts[f] :
          \A w \in {attempts[f][i].loop, attempts[f][i].final} :
              w.pc = "write" => w.seen # NoFile

\* C13: an error thrown while a name is processed ends the call of
\* runOnFileNameInner for the name in the catch of runOnFileName: the name
\* leaves filesPending unless a request was pending, in which case one new
\* call starts; and no checkpoint of writeLoop has thrown while its call is
\* still in flight.
C13_ErrorsCaughtAtBoundary ==
    /\ (lastStep.kind = "finish" /\ lastStep.how = "threw")
          => IF lastStep.requested
             THEN lastStep.started = 1 /\ InFlight(lastStep.f) = 1
             ELSE lastStep.f \notin filesPending /\ InFlight(lastStep.f) = 0
    /\ \A f \in Files : \A i \in DOMAIN attempts[f] :
          attempts[f][i].loop.pc = "dead" => attempts[f][i].pc = "ret"

\* The trailers a failed child leaves in output: a spawn error, and an
\* exit with a code other than 0 of a child that was not killed.
FailureTrailers == {ErrorTrailer} \cup {ExitTrailer(code) : code \in ExitCodes \ {<<"0">>}}

\* The output a run accumulated ends with the trailer of a failure.
EndedInFailure(c) ==
    \E t \in FailureTrailers : IndexOf(c.output, t, 0) = Len(c.output) - Len(t)

\* C14: when the child failed to spawn or exited with a code other than 0,
\* no checkpoint saw a stop key and the user edited nothing, then at the
\* return of runOnFileNameInner the output in the file contains the
\* trailer of the failure and the file's lastRunHash is the run's
\* fingerprint.
C14_FailureRecordedAsCompleted ==
    LET c == lastStep.c
        d == OnDisk(lastStep.f)
    IN  ( /\ lastStep.kind = "finish" /\ lastStep.how = "done"
          /\ ~c.stopSeen /\ edits = 0
          /\ EndedInFailure(c) )
        => /\ HasKey(d, KeyOutput)
           /\ \E t \in FailureTrailers : IndexOf(GetKey(d, KeyOutput), t, 0) >= 0
           /\ Holds(d, KeyLastRunHash, c.hash)

\* The write of a checkpoint that saw no stop key has just completed, in
\* writeLoop or as the final checkpoint.
JustRecorded ==
    \/ lastStep.kind = "write" /\ lastStep.how = "record"
    \/ lastStep.kind = "finish" /\ lastStep.how = "done"
                                /\ lastStep.c.final.pc = "write"

\* C15: when the write of a checkpoint that recorded the run's output
\* completes, the last block of the file is the output block and nothing
\* follows it.
C15_OutputBlockLast ==
    LET text   == disk[lastStep.f]
        ranges == getCommentValueLookup(text).ranges
    IN  JustRecorded
        => /\ ranges # <<>>
           /\ ranges[Len(ranges)].key = KeyOutput
           /\ ranges[Len(ranges)].end = Len(text)

\* C16: no writeFile of a checkpoint of writeLoop that records the run's
\* output completes after done was set for its run.  (The checkpoint saw
\* no stop key, so done is as it was before the write.)
C16_NoWriteAfterDone ==
    (lastStep.kind = "write" /\ lastStep.how = "record") => ~lastStep.c.done

\* C17: while a run's child is alive and has not been told to die and the
\* file holds a stop key, the run's writeLoop is alive, sleeping or inside
\* a checkpoint, so that a checkpoint that reads the stop key is still to
\* come.
C17_StopIsPolled ==
    \A f \in Files : \A i \in DOMAIN attempts[f] :
        LET c == attempts[f][i]
        IN  ( /\ c.pc = "promise" /\ c.child.alive /\ ~c.child.killed
              /\ disk[f] # NoFile /\ HasKey(OnDisk(f), KeyStop) )
            => c.loop.pc \in {"timer", "read", "write"}

\* The text that serialises what a run captured when it began (the lookup
\* of the contents it read, with its ranges and original contents) once
\* output is set to o, lastRunHash to the run's fingerprint and stop is
\* deleted.
CapturedWith(c, o) ==
    LET captured == getCommentValueLookup(c.contents)
    IN  getContentsFromLookup(
            [captured EXCEPT
                !.vals = DeleteKey(SetKey(SetKey(@, KeyOutput, o),
                                          KeyLastRunHash, c.hash), KeyStop)])

IsPrefix(s, t) == Len(s) <= Len(t) /\ s = SubSeq(t, 1, Len(s))

\* C18: the text a checkpoint of a run in flight writes, when neither it
\* nor an earlier checkpoint of the run saw a stop key, is the
\* serialisation of what the run captured when it began, with output set
\* to output accumulated so far and lastRunHash to the run's fingerprint,
\* whatever the checkpoint's own read of the file gave.
C18_CheckpointWritesCaptured ==
    \A f \in Files : \A i \in DOMAIN attempts[f] :
        LET c == attempts[f][i]
        IN  c.pc \in {"promise", "final"}
            => \A w \in {c.loop, c.final} :
                  (w.pc = "write" /\ ~w.kill /\ ~w.afterStop)
                  => LET written == getCommentValueLookup(w.data).vals
                     IN  /\ HasKey(written, KeyOutput)
                         /\ IsPrefix(GetKey(written, KeyOutput), c.output)
                         /\ w.data = CapturedWith(c, GetKey(written, KeyOutput))

\* A checkpoint read the script as the user changed it during the run and
\* is writing a text without the change.
C18_Witness ==
    \E f \in Files : \E i \in DOMAIN attempts[f] :
        LET c == attempts[f][i]
        IN  /\ c.pc \in {"promise", "final"}
            /\ \E w \in {c.loop, c.final} :
                  /\ w.pc = "write" /\ ~w.kill /\ ~w.afterStop
                  /\ w.seen = <<"z">> \o c.contents
                  /\ w.data # <<>> /\ w.data[1] # "z"

\* C19: as long as the user has edited nothing, so that every event of
\* fs.watch comes from a write of a checkpoint, no call of
\* runOnFileNameInner other than those of the startup scan forks a child.
C19_OwnWritesCauseNoRun ==
    \A f \in Files : \A c \in ClosuresOf(f) :
        (edits = 0 /\ ~c.scan) => c.pc \notin {"promise", "final"}

\* C20: when a name is not in filesPending, no writeLoop of a call made
\* for it is inside a checkpoint or sleeping with done still false.
C20_NoLoopOutlivesItsCall ==
    \A f \in Files : \A c \in ClosuresOf(f) :
        f \notin filesPending
            => \/ c.loop.pc \in {"off", "dead"}
               \/ c.loop.pc = "timer" /\ c.done

=============================================================================
